---- MODULE Spec2Model ----
(***************************************************************************)
(* Streaming task/client core of the code review application:              *)
(*   llm_interface/review_task.py  (BaseReviewTask, ReviewTask,            *)
(*                                  FollowUpTask, TaskManager)             *)
(*   llm_interface/qwen_runner.py  (EnhancedLLMClient)                     *)
(*   gui/main_window.py            (the caller of the TaskManager)         *)
(*                                                                         *)
(* The coordinating (GUI) thread runs the TaskManager operations and       *)
(* cancel(); every task created runs run() on a pool worker.  A worker     *)
(* step holds at most one operation the coordinating thread can observe    *)
(* or influence: one read of _is_cancelled, one buffer append (with the    *)
(* flush it triggers) or one signal emission.  Everything else a step      *)
(* does is local to the worker.  core_performance is not importable from   *)
(* the sources (HAS_CPP_BACKEND = False), so the tasks run the Python      *)
(* fallback buffer.                                                        *)
(***************************************************************************)
EXTENDS Integers, Sequences, FiniteSets, TLC

(* ------------------------------ bounds --------------------------------- *)
\* tasks one TaskManager creates
MaxTasks == 2
\* response lines the server sends to the tasks of one TaskManager
MaxSharedLines == 1
\* response lines the server sends to a single task
MaxLines == 3
\* largest configured buffer_size
MaxBufferSize == 2
\* largest configured max_retries
MaxRetries == 1
\* largest configured max_retries when several tasks share the manager
MaxSharedRetries == 0
\* largest configured max_conversation_length
MaxConversationLength == 5
\* longest code, review or question handed to the client
MaxTextLen == 4
\* tokens fed to the two buffering paths
MaxFed == 3

TaskIds == 1..MaxTasks

(* ------------------------- program constants --------------------------- *)
ERROR_PREFIX == "[ERROR]"
DATA_PREFIX == "data: "
REVIEW_PROGRESS_EVERY == 50
FOLLOWUP_PROGRESS_EVERY == 30
DEFAULT_MAX_CONVERSATION_LENGTH == 50000
MODEL_NAME == "qwen2.5-coder"
CODE_MARKER == "\n\n# ... (truncated for length) ..."
REVIEW_MARKER == "...\n\n"
REVIEW_SYSTEM_MESSAGE ==
    "You are an expert software engineer and code reviewer. "
    \o "Provide a comprehensive, constructive review of the provided Python code. "
    \o "Focus on:\n"
    \o "1. Code correctness and potential bugs\n"
    \o "2. Code style and readability\n"
    \o "3. Performance considerations\n"
    \o "4. Security concerns\n"
    \o "5. Best practices and improvements\n"
    \o "6. Documentation and comments\n\n"
    \o "Format your response in clear, structured markdown."
FOLLOWUP_SYSTEM_MESSAGE ==
    "You are continuing a code review conversation. "
    \o "Use the previous review as context and answer the user's follow-up question "
    \o "in a helpful and detailed manner."

(* ------------------------------ inputs --------------------------------- *)
\* code of a review / question of a follow-up
Inputs == {"", " ", "x"}
\* the question is restated between fixed separator text
Separator(question) == "\n\n---\n\n**Follow-up:** " \o question \o "\n\n"

\* One line of a response body as iter_lines() returns it: an optional
\* "data: " prefix and a body that is empty, bytes that are not UTF-8
\* ("undecodable"), text that is not JSON ("garbage"), JSON that is no
\* object ("scalar": a number, a list, null), or a JSON record with done
\* and a message that has a content ("content"), a message without content
\* ("empty") or no message at all ("absent").
Lines ==
    { [prefix |-> "", body |-> "empty", message |-> "content",
       content |-> "", done |-> FALSE],
      [prefix |-> "", body |-> "garbage", message |-> "content",
       content |-> "", done |-> FALSE],
      [prefix |-> "", body |-> "undecodable", message |-> "content",
       content |-> "", done |-> FALSE],
      [prefix |-> "", body |-> "scalar", message |-> "content",
       content |-> "", done |-> FALSE],
      [prefix |-> "", body |-> "record", message |-> "content",
       content |-> "Looks", done |-> FALSE],
      [prefix |-> DATA_PREFIX, body |-> "record", message |-> "content",
       content |-> " fine.", done |-> TRUE],
      [prefix |-> "", body |-> "record", message |-> "content",
       content |-> "", done |-> FALSE],
      [prefix |-> DATA_PREFIX, body |-> "record", message |-> "content",
       content |-> "", done |-> TRUE],
      [prefix |-> "", body |-> "record", message |-> "absent",
       content |-> "", done |-> FALSE],
      [prefix |-> "", body |-> "record", message |-> "empty",
       content |-> "", done |-> TRUE],
      [prefix |-> "", body |-> "record", message |-> "content",
       content |-> "[ERROR] x", done |-> FALSE] }

\* what session.post + raise_for_status can do
PostOutcomes == {"ok", "connection", "timeout", "http", "request"}

\* code, review and question texts: no two characters of one text alike,
\* so that its head and its tail differ
SAMPLE_TEXT == "abcdefgh"
Texts == {SubSeq(SAMPLE_TEXT, 1, n) : n \in 0..MaxTextLen} \cup {" "}

\* how the liveness GET can end: a transport failure, or a status
GetOutcomes ==
    { [transport |-> "connection", status |-> 0],
      [transport |-> "timeout", status |-> 0] }
    \cup { [transport |-> "ok", status |-> c] :
              c \in {200, 201, 204, 304, 400, 404, 500, 503} }

VARIABLES
    buffer_size,     \* config.buffer_size
    max_retries,     \* config.max_retries
    current_task,    \* TaskManager.current_task (0 is None)
    task_history,    \* TaskManager.task_history
    kind,            \* per task: "none", "review", "followup"
    input,           \* per task: ReviewTask.code / FollowUpTask.question
    is_cancelled,    \* per task: _is_cancelled
    buffer,          \* per task: _buffer
    token_count,     \* per task: run()'s token_count
    pc,              \* per task: where run() stands
    cur,             \* per task: the line whose token the loop body holds
    attempt,         \* per task: _stream_response's attempt
    emitted,         \* per task: the signals emitted, in order
    attempts,        \* history: outcome of every POST of the task
    served,          \* history: lines read from the task's open response
    yielded,         \* history: tokens the stream yielded to run()
    offered,         \* history: tokens passed to _add_token
    cur_after_cancel,\* history: cur was yielded with the flag already set
    stream_end,      \* history: how the task's stream call ended
    lines_left,      \* lines the server may still send
    tasks_left,      \* tasks the caller may still start
    cancelled_in_backoff, \* history: the first cancel() came between attempts
    cancelled_again, \* history: cancel() was called on the task once more
    idle,            \* history: flush_interval_ms went by since the last token
    stop_calls,      \* history: how often run() called _stop_streaming
    sleeps,          \* history: the time.sleep(...) waits of _stream_response
    max_conversation_length, \* config.max_conversation_length
    request,         \* the last stream_code_review / stream_follow_up call
    payload,         \* the payload that call built
    connection_test, \* the last test_connection call and what it returned
    streaming,       \* both paths: "created", "streaming" or "stopped"
    fed,             \* both paths: the tokens passed to _add_token so far
    stream_cancelled,\* both paths: _is_cancelled of the task
    py_buffer,       \* fallback path: _buffer
    py_delivered,    \* fallback path: chunks append_content received
    cpp_pending,     \* native path: tokens the streamer holds
    cpp_emitted,     \* native path: chunks the streamer gave its callback
    cpp_posted,      \* native path: ContentReadyEvents not yet dispatched
    cpp_delivered    \* native path: chunks append_content received

vars == << buffer_size, max_retries, current_task, task_history, kind, input,
           is_cancelled, buffer, token_count, pc, cur, attempt, emitted,
           attempts, served, yielded, offered, cur_after_cancel, stream_end,
           lines_left, tasks_left, cancelled_in_backoff, cancelled_again, idle, stop_calls, sleeps,
           max_conversation_length, request, payload, connection_test,
           streaming, fed, stream_cancelled, py_buffer, py_delivered,
           cpp_pending, cpp_emitted, cpp_posted, cpp_delivered >>

streamerVars == << streaming, fed, stream_cancelled, py_buffer, py_delivered,
                   cpp_pending, cpp_emitted, cpp_posted, cpp_delivered >>
managerVars == << current_task, task_history >>
configVars == << buffer_size, max_retries >>
clientVars == << max_conversation_length, request, payload, connection_test >>
taskVars == << buffer_size, max_retries, current_task, task_history, kind,
               input, is_cancelled, buffer, token_count, pc, cur, attempt,
               emitted, attempts, served, yielded, offered, cur_after_cancel,
               stream_end, lines_left, tasks_left, cancelled_in_backoff, cancelled_again, idle,
               stop_calls, sleeps >>

NoLine == [prefix |-> "", body |-> "empty", message |-> "content",
           content |-> "", done |-> FALSE]

(* ----------------------------- helpers --------------------------------- *)
\* ''.join(tokens)
RECURSIVE Join(_)
Join(tokens) ==
    IF tokens = << >> THEN "" ELSE Head(tokens) \o Join(Tail(tokens))

\* a prefix test that wants the whole string
StartsWith_Whole(s, p) == s = p

\* s.startswith(p)
StartsWith(s, p) == Len(s) >= Len(p) /\ SubSeq(s, 1, Len(p)) = p

\* not s or not s.strip()
\* a blank test without strip()
IsBlank_NoStrip(s) == s = ""

IsBlank(s) == \A i \in 1..Len(s) : SubSeq(s, i, i) = " "

Notification(type, text) == [type |-> type, text |-> text]

Count(log, type) == Cardinality({i \in 1..Len(log) : log[i].type = type})

ContentOf(log) ==
    Join([i \in 1..Len(SelectSeq(log, LAMBDA n : n.type = "content")) |->
            SelectSeq(log, LAMBDA n : n.type = "content")[i].text])

NoRequest == [op |-> "none", text |-> "", question |-> ""]
NoPayload == [model |-> "", stream |-> FALSE, messages |-> << >>]
NoConnectionTest ==
    [outcome |-> [transport |-> "none", status |-> 0], returned |-> FALSE,
     raised |-> FALSE]

Created ==
    /\ buffer_size \in 1..MaxBufferSize
    /\ max_retries \in (0 - 1)..MaxRetries
    /\ current_task = 0
    /\ task_history = << >>
    /\ kind = [t \in TaskIds |-> "none"]
    /\ input = [t \in TaskIds |-> ""]
    /\ is_cancelled = [t \in TaskIds |-> FALSE]
    /\ buffer = [t \in TaskIds |-> << >>]
    /\ token_count = [t \in TaskIds |-> 0]
    /\ pc = [t \in TaskIds |-> "none"]
    /\ cur = [t \in TaskIds |-> NoLine]
    /\ attempt = [t \in TaskIds |-> 0]
    /\ emitted = [t \in TaskIds |-> << >>]
    /\ attempts = [t \in TaskIds |-> << >>]
    /\ served = [t \in TaskIds |-> << >>]
    /\ yielded = [t \in TaskIds |-> << >>]
    /\ offered = [t \in TaskIds |-> << >>]
    /\ cur_after_cancel = [t \in TaskIds |-> FALSE]
    /\ stream_end = [t \in TaskIds |-> "open"]
    /\ cancelled_in_backoff = [t \in TaskIds |-> FALSE]
    /\ cancelled_again = [t \in TaskIds |-> FALSE]
    /\ idle = [t \in TaskIds |-> FALSE]
    /\ stop_calls = [t \in TaskIds |-> 0]
    /\ sleeps = [t \in TaskIds |-> << >>]
    /\ streaming = "created"
    /\ fed = << >>
    /\ stream_cancelled = FALSE
    /\ py_buffer = << >>
    /\ py_delivered = << >>
    /\ cpp_pending = << >>
    /\ cpp_emitted = << >>
    /\ cpp_posted = << >>
    /\ cpp_delivered = << >>

\* the client before any call: no payload built, no connection tested
ClientIdle ==
    /\ request = NoRequest
    /\ payload = NoPayload
    /\ connection_test = NoConnectionTest

\* a TaskManager and the tasks its caller starts
Init ==
    /\ Created
    /\ ClientIdle
    /\ max_conversation_length = DEFAULT_MAX_CONVERSATION_LENGTH
    /\ max_retries <= MaxSharedRetries
    /\ tasks_left = MaxTasks
    /\ lines_left = MaxSharedLines

\* one task, from start_review / start_followup to the end of its run()
InitTask ==
    /\ Created
    /\ ClientIdle
    /\ max_conversation_length = DEFAULT_MAX_CONVERSATION_LENGTH
    /\ tasks_left = 1
    /\ lines_left = MaxLines

\* the client alone: its payloads and its connection test
InitClient ==
    /\ Created
    /\ ClientIdle
    /\ max_conversation_length \in 0..MaxConversationLength
    /\ tasks_left = 0
    /\ lines_left = 0

\* one task as BaseReviewTask.__init__ leaves it, on either buffering path
InitStreamer ==
    /\ Created
    /\ ClientIdle
    /\ max_conversation_length = DEFAULT_MAX_CONVERSATION_LENGTH
    /\ tasks_left = 0
    /\ lines_left = 0

(* ------------------------- BaseReviewTask ------------------------------ *)
\* a worker that never sees the coordinating thread's write of the flag
IsCancelled_Stale(t) == FALSE

\* a read of self._is_cancelled
IsCancelled(t) == is_cancelled[t]

\* a cancel() that flips the flag
cancel_Toggle(flags, t) == [flags EXCEPT ![t] = ~@]

\* cancel(): sets the flag; the streamer it would stop is the native one
cancel(flags, t) == [flags EXCEPT ![t] = TRUE]

\* a size test that waits for one token more
SizeTrigger_Strict(buf, size) == Len(buf) > size

\* len(self._buffer) >= self._buffer_size
SizeTrigger(buf, size) == Len(buf) >= size

\* a flush that forgets self._buffer.clear()
FlushPythonBuffer_NoClear(buf) ==
    IF buf # << >>
    THEN [buffer |-> buf, out |-> << Notification("content", Join(buf)) >>]
    ELSE [buffer |-> buf, out |-> << >>]

\* _flush_python_buffer: the buffer it leaves and the content_ready it emits
FlushPythonBuffer(buf) ==
    IF buf # << >>
    THEN [buffer |-> << >>, out |-> << Notification("content", Join(buf)) >>]
    ELSE [buffer |-> buf, out |-> << >>]

\* an _add_token that flushes what was pending before it appends
AppendToken_FlushFirst(buf, token, size) ==
    IF SizeTrigger(Append(buf, token), size)
    THEN [buffer |-> << token >>,
          out |-> << Notification("content", Join(buf)) >>]
    ELSE [buffer |-> Append(buf, token), out |-> << >>]

\* the fallback branch of _add_token, past the cancellation check
AppendToken(buf, token, size) ==
    IF SizeTrigger(Append(buf, token), size)
    THEN FlushPythonBuffer(Append(buf, token))
    ELSE [buffer |-> Append(buf, token), out |-> << >>]

\* _stop_streaming: the fallback branch flushes what is pending
StopStreaming(buf) == FlushPythonBuffer(buf)

\* the periodic progress of the token loop
ProgressEvery(t) ==
    IF kind[t] = "review" THEN REVIEW_PROGRESS_EVERY ELSE FOLLOWUP_PROGRESS_EVERY

CadenceProgress(t, count) ==
    IF count % ProgressEvery(t) = 0
    THEN << Notification("progress", "Received tokens") >>
    ELSE << >>

Emit(t, out) == emitted' = [emitted EXCEPT ![t] = @ \o out]

\* the generator resumes behind its yield: done ends it, else the next line
AfterToken(t) == IF cur[t].done THEN "stop1" ELSE "read"

StreamEnds(t, how) == stream_end' = [stream_end EXCEPT ![t] = how]

StreamEndsAfterToken(t) ==
    IF cur[t].done THEN StreamEnds(t, "exhausted") ELSE UNCHANGED stream_end

(* ---------------------------- TaskManager ------------------------------ *)
\* a manager that drops the current task without cancelling it
CancelCurrentTask_Never(flags) == flags

\* _cancel_current_task, as far as the tasks see it
CancelCurrentTask(flags) ==
    IF current_task # 0 THEN cancel(flags, current_task) ELSE flags

\* _stream_response stands between two attempts: the last one failed and
\* the backoff sleep before the next one is running
BetweenAttempts(t) == pc[t] = "post" /\ Len(attempts[t]) >= 1

\* history: cancel() called on task t, whose flag may be set already
CancelCalled(t) ==
    /\ cancelled_again' =
            [cancelled_again EXCEPT ![t] = @ \/ is_cancelled[t]]
    /\ cancelled_in_backoff' =
            [cancelled_in_backoff EXCEPT
                ![t] = IF is_cancelled[t] THEN @ ELSE BetweenAttempts(t)]

\* a history that keeps only its newest entry
AppendHistory_KeepsNewest(history, k, text) == << << k, Len(text) >> >>

\* self.task_history.append((kind, len(text)))
AppendHistory(history, k, text) == Append(history, << k, Len(text) >>)

\* sum(1 for task_type, _ in self.task_history if task_type == k)
CountKind(history, k) ==
    Cardinality({i \in 1..Len(history) : history[i][1] = k})

\* get_stats
GetStats ==
    [ total_tasks |-> Len(task_history),
      reviews |-> CountKind(task_history, "review"),
      followups |-> CountKind(task_history, "followup"),
      has_current_task |-> current_task # 0 ]

\* start_review / start_followup, then threadpool.start(task) by the caller
StartTask(k, text) ==
    /\ tasks_left > 0
    /\ tasks_left' = tasks_left - 1
    /\ LET t == Len(task_history) + 1 IN
        /\ is_cancelled' = CancelCurrentTask(is_cancelled)
        /\ IF current_task # 0
           THEN CancelCalled(current_task)
           ELSE UNCHANGED << cancelled_again, cancelled_in_backoff >>
        /\ current_task' = t
        /\ task_history' = AppendHistory(task_history, k, text)
        /\ kind' = [kind EXCEPT ![t] = k]
        /\ input' = [input EXCEPT ![t] = text]
        /\ pc' = [pc EXCEPT ![t] = "queued"]
    /\ UNCHANGED << streamerVars, clientVars, configVars,
                    idle, stop_calls, sleeps, buffer, token_count, cur, attempt, emitted,
                    attempts, served, yielded, offered, cur_after_cancel,
                    lines_left,
                    stream_end >>

StartReview == \E code \in Inputs : StartTask("review", code)

StartFollowup == \E question \in Inputs : StartTask("followup", question)

\* the caller cancels the current task and keeps it (closeEvent)
CancelTask ==
    /\ current_task # 0
    /\ is_cancelled' = cancel(is_cancelled, current_task)
    /\ CancelCalled(current_task)
    /\ UNCHANGED << streamerVars, clientVars, configVars,
                    idle, stop_calls, sleeps, managerVars, kind, input, buffer, token_count,
                    pc, cur, attempt, emitted, attempts, served, yielded,
                    offered, cur_after_cancel, lines_left, tasks_left,
                    stream_end >>

(* ------------------------ run(), step by step -------------------------- *)
ValidationMessage(t) ==
    IF kind[t] = "review" THEN "No code provided for review"
    ELSE "No question provided for follow-up"

\* a follow-up that goes to its stream without the separator
RunBegin_NoSeparator(t) ==
    /\ pc[t] = "queued"
    /\ IF IsBlank(input[t])
       THEN /\ Emit(t, << Notification("error", ValidationMessage(t)) >>)
            /\ pc' = [pc EXCEPT ![t] = "finally"]
       ELSE /\ Emit(t, << Notification("progress", "Starting") >>)
            /\ pc' = [pc EXCEPT ![t] = "post"]
    /\ UNCHANGED << streamerVars, clientVars, configVars, managerVars, cancelled_in_backoff,
                    cancelled_again, idle, stop_calls, sleeps, kind, input,
                    is_cancelled, buffer, token_count, cur, attempt, attempts,
                    served, yielded, offered, cur_after_cancel, lines_left,
                    tasks_left, stream_end >>

\* run() up to its first progress signal
RunBegin(t) ==
    /\ pc[t] = "queued"
    /\ IF IsBlank(input[t])
       THEN /\ Emit(t, << Notification("error", ValidationMessage(t)) >>)
            /\ pc' = [pc EXCEPT ![t] = "finally"]
       ELSE /\ Emit(t, << Notification("progress", "Starting") >>)
            /\ pc' = [pc EXCEPT ![t] = IF kind[t] = "followup" THEN "sep" ELSE "post"]
    /\ UNCHANGED << streamerVars, clientVars, configVars,
                    cancelled_in_backoff, cancelled_again, idle, stop_calls, sleeps, managerVars, kind, input, is_cancelled, buffer,
                    token_count, cur, attempt, attempts, served, yielded,
                    offered, cur_after_cancel, lines_left, tasks_left,
                    stream_end >>

\* FollowUpTask: _add_token(separator), the check of the flag
RunSeparator(t) ==
    /\ pc[t] = "sep"
    /\ offered' = [offered EXCEPT ![t] = Append(@, Separator(input[t]))]
    /\ pc' = [pc EXCEPT ![t] = IF IsCancelled(t) THEN "post" ELSE "sep_append"]
    /\ UNCHANGED << streamerVars, clientVars, configVars,
                    cancelled_in_backoff, cancelled_again, idle, stop_calls, sleeps, managerVars, kind, input, is_cancelled, buffer,
                    token_count, cur, attempt, emitted, attempts, served,
                    yielded, cur_after_cancel, lines_left, tasks_left,
                    stream_end >>

\* FollowUpTask: _add_token(separator), the append
RunSeparatorAppend(t) ==
    /\ pc[t] = "sep_append"
    /\ LET r == AppendToken(buffer[t], Separator(input[t]), buffer_size) IN
        /\ buffer' = [buffer EXCEPT ![t] = r.buffer]
        /\ Emit(t, r.out)
    /\ pc' = [pc EXCEPT ![t] = "post"]
    /\ UNCHANGED << streamerVars, clientVars, configVars,
                    cancelled_in_backoff, cancelled_again, idle, stop_calls, sleeps, managerVars, kind, input, is_cancelled,
                    token_count, cur, attempt, attempts, served, yielded,
                    offered, cur_after_cancel, lines_left, tasks_left,
                    stream_end >>

(* -------------------------- EnhancedLLMClient -------------------------- *)
\* a backoff that grows linearly from zero
WaitTime_Linear(k) == 2 * k

\* wait_time = 2 ** attempt
WaitTime(k) == 2 ^ k

\* a retry test that gives up one attempt early
ShouldRetry_OneShort(k, retries) == k < retries - 1

\* a retry test that also retries behind the last attempt
ShouldRetry_OneMore(k, retries) == k <= retries

\* attempt < self.max_retries
ShouldRetry(k, retries) == k < retries

\* a retry rule that also retries an HTTP error status
Retryable_AlsoHttp(outcome) == outcome \in {"connection", "timeout", "http"}

Retryable(outcome) == outcome \in {"connection", "timeout"}

ErrorMessage(outcome) ==
    CASE outcome = "connection" -> "LLM Error: Failed to connect to LLM service"
      [] outcome = "timeout" -> "LLM Error: LLM request timed out"
      [] outcome = "http" -> "LLM Error: HTTP error from LLM service"
      [] OTHER -> "LLM Error: Request error"

\* one turn of the retry loop of _stream_response: range(max_retries + 1)
\* is exhausted, or one POST is made and its outcome handled
RunPost(t) ==
    /\ pc[t] = "post"
    /\ IF IsBlank(input[t])
       THEN /\ Emit(t, << Notification("error", "LLM Error: Empty input") >>)
            /\ pc' = [pc EXCEPT ![t] = "finally"]
            /\ StreamEnds(t, "failed")
            /\ UNCHANGED << attempt, attempts, sleeps >>
       ELSE IF attempt[t] >= max_retries + 1
       THEN /\ pc' = [pc EXCEPT ![t] = "stop1"]
            /\ StreamEnds(t, "exhausted")
            /\ UNCHANGED << attempt, attempts, emitted, sleeps >>
       ELSE \E outcome \in PostOutcomes :
            /\ attempts' = [attempts EXCEPT ![t] = Append(@, outcome)]
            /\ IF outcome = "ok"
               THEN /\ pc' = [pc EXCEPT ![t] = "read"]
                    /\ UNCHANGED << attempt, emitted, stream_end, sleeps >>
               ELSE IF Retryable(outcome) /\ ShouldRetry(attempt[t], max_retries)
               THEN /\ attempt' = [attempt EXCEPT ![t] = @ + 1]
                    /\ sleeps' = [sleeps EXCEPT
                                    ![t] = Append(@, WaitTime(attempt[t]))]
                    /\ UNCHANGED << pc, emitted, stream_end >>
               ELSE /\ Emit(t, << Notification("error", ErrorMessage(outcome)) >>)
                    /\ pc' = [pc EXCEPT ![t] = "finally"]
                    /\ StreamEnds(t, "failed")
                    /\ UNCHANGED << attempt, sleeps >>
    /\ UNCHANGED << streamerVars, clientVars, configVars,
                    cancelled_in_backoff, cancelled_again, idle, stop_calls, managerVars, kind, input, is_cancelled, buffer,
                    token_count, cur, served, yielded, offered,
                    cur_after_cancel, lines_left, tasks_left >>

\* line[6:] when the line starts with "data: "
StripPrefix(line) ==
    IF StartsWith(line.prefix, DATA_PREFIX)
    THEN [line EXCEPT !.prefix = SubSeq(@, Len(DATA_PREFIX) + 1, Len(@))]
    ELSE line

\* line.decode("utf-8") succeeds on the line
DecodesAsUtf8(line) == line.body # "undecodable"

\* json.loads succeeds on the line
ParsesAsJson(line) == line.prefix = "" /\ line.body \in {"record", "scalar"}

\* data.get(...) works: the parsed value is a dict
IsObject(line) == line.body = "record"

\* data.get("message", {}).get("content", ""): the record's message.content,
\* "" when the record has no message or the message has no content
Token(line) == IF line.message = "content" THEN line.content ELSE ""

\* a decoder without the 'if token' test: every record yields
DecodeLine_YieldsEmpty(line) ==
    IF line.prefix = "" /\ line.body = "empty" THEN "skip"
    ELSE IF ~DecodesAsUtf8(line) THEN "raise"
    ELSE IF ~ParsesAsJson(StripPrefix(line)) THEN "skip"
    ELSE IF ~IsObject(line) THEN "raise"
    ELSE "yield"

\* a decoder that tests done before it yields the record's content
DecodeLine_DoneFirst(line) ==
    IF line.prefix = "" /\ line.body = "empty" THEN "skip"
    ELSE IF ~DecodesAsUtf8(line) THEN "raise"
    ELSE IF ~ParsesAsJson(StripPrefix(line)) THEN "skip"
    ELSE IF ~IsObject(line) THEN "raise"
    ELSE IF line.done THEN "break"
    ELSE IF Token(line) # "" THEN "yield"
    ELSE "skip"

\* a decoder that reads on behind a done record
DecodeLine_IgnoresDone(line) ==
    IF line.prefix = "" /\ line.body = "empty" THEN "skip"
    ELSE IF ~DecodesAsUtf8(line) THEN "raise"
    ELSE IF ~ParsesAsJson(StripPrefix(line)) THEN "skip"
    ELSE IF ~IsObject(line) THEN "raise"
    ELSE IF Token(line) # "" THEN "yield"
    ELSE "skip"

\* what _process_stream does with one line: "skip", "yield", "break", or
\* "raise" for an exception that is not a JSONDecodeError
DecodeLine(line) ==
    IF line.prefix = "" /\ line.body = "empty" THEN "skip"
    ELSE IF ~DecodesAsUtf8(line) THEN "raise"
    ELSE IF ~ParsesAsJson(StripPrefix(line)) THEN "skip"
    ELSE IF ~IsObject(line) THEN "raise"
    ELSE IF Token(line) # "" THEN "yield"
    ELSE IF line.done THEN "break"
    ELSE "skip"

\* _process_stream reads one line of the body
RunReadLine(t) ==
    /\ pc[t] = "read"
    /\ lines_left > 0
    /\ \E line \in Lines :
        /\ served' = [served EXCEPT ![t] = Append(@, line)]
        /\ lines_left' = lines_left - 1
        /\ CASE DecodeLine(line) = "yield" ->
                    /\ cur' = [cur EXCEPT ![t] = line]
                    /\ yielded' = [yielded EXCEPT ![t] = Append(@, Token(line))]
                    /\ cur_after_cancel' = [cur_after_cancel EXCEPT ![t] = is_cancelled[t]]
                    /\ pc' = [pc EXCEPT ![t] = "tok155"]
                    /\ idle' = [idle EXCEPT ![t] = FALSE]
                    /\ UNCHANGED << stream_end, emitted >>
             [] DecodeLine(line) = "break" ->
                    /\ pc' = [pc EXCEPT ![t] = "stop1"]
                    /\ StreamEnds(t, "exhausted")
                    /\ idle' = [idle EXCEPT ![t] = FALSE]
                    /\ UNCHANGED << cur, yielded, cur_after_cancel, emitted >>
             [] DecodeLine(line) = "raise" ->
                    /\ Emit(t, << Notification("error",
                                   "LLM Error: Stream processing error") >>)
                    /\ pc' = [pc EXCEPT ![t] = "finally"]
                    /\ StreamEnds(t, "failed")
                    /\ idle' = [idle EXCEPT ![t] = FALSE]
                    /\ UNCHANGED << cur, yielded, cur_after_cancel >>
             [] OTHER ->
                    UNCHANGED << pc, cur, yielded, cur_after_cancel, stream_end,
                                 idle, emitted >>
    /\ UNCHANGED << streamerVars, clientVars, configVars,
                    cancelled_in_backoff, cancelled_again, stop_calls, sleeps, managerVars, kind, input, is_cancelled, buffer,
                    token_count, attempt, attempts, offered,
                    tasks_left >>

\* more than flush_interval_ms goes by while iter_lines() waits for the
\* next line; the fallback buffer has no timer, so nothing else happens
WaitForLine(t) ==
    /\ pc[t] = "read"
    /\ ~idle[t]
    /\ idle' = [idle EXCEPT ![t] = TRUE]
    /\ UNCHANGED << streamerVars, clientVars, configVars, managerVars, cancelled_in_backoff, cancelled_again,
                    stop_calls, sleeps, kind, input, is_cancelled, buffer,
                    token_count, pc, cur, attempt, emitted, attempts, served,
                    yielded, offered, cur_after_cancel, lines_left, tasks_left,
                    stream_end >>

\* the body ends: iter_lines() is exhausted
RunReadEnd(t) ==
    /\ pc[t] = "read"
    /\ pc' = [pc EXCEPT ![t] = "stop1"]
    /\ StreamEnds(t, "exhausted")
    /\ idle' = [idle EXCEPT ![t] = FALSE]
    /\ UNCHANGED << streamerVars, clientVars, configVars,
                    cancelled_in_backoff, cancelled_again, stop_calls, sleeps, managerVars, kind, input, is_cancelled, buffer,
                    token_count, cur, attempt, emitted, attempts, served,
                    yielded, offered, cur_after_cancel, lines_left, tasks_left >>

\* a client that retries a response that broke while it was read
RunReadFail_Retries(t) ==
    /\ pc[t] = "read"
    /\ IF ShouldRetry(attempt[t], max_retries)
       THEN /\ attempt' = [attempt EXCEPT ![t] = @ + 1]
            /\ sleeps' = [sleeps EXCEPT ![t] = Append(@, WaitTime(attempt[t]))]
            /\ pc' = [pc EXCEPT ![t] = "post"]
            /\ UNCHANGED << emitted, stream_end >>
       ELSE /\ Emit(t, << Notification("error",
                          "LLM Error: Stream processing error") >>)
            /\ pc' = [pc EXCEPT ![t] = "finally"]
            /\ StreamEnds(t, "failed")
            /\ UNCHANGED << attempt, sleeps >>
    /\ idle' = [idle EXCEPT ![t] = FALSE]
    /\ UNCHANGED << streamerVars, clientVars, configVars, managerVars, cancelled_in_backoff,
                    cancelled_again, stop_calls, kind, input, is_cancelled,
                    buffer, token_count, cur, attempts, served, yielded,
                    offered, cur_after_cancel, lines_left, tasks_left >>

\* a client that starts its retry loop over when the body breaks
RunReadFail_Restarts(t) ==
    /\ pc[t] = "read"
    /\ attempt' = [attempt EXCEPT ![t] = 0]
    /\ pc' = [pc EXCEPT ![t] = "post"]
    /\ idle' = [idle EXCEPT ![t] = FALSE]
    /\ UNCHANGED << streamerVars, clientVars, configVars, managerVars,
                    cancelled_in_backoff, cancelled_again, stop_calls, sleeps,
                    kind, input, is_cancelled, buffer, token_count, cur,
                    emitted, attempts, served, yielded, offered,
                    cur_after_cancel, stream_end, lines_left, tasks_left >>

\* iter_lines() raises: wrapped into LLMResponseError, caught by run()
RunReadFail(t) ==
    /\ pc[t] = "read"
    /\ Emit(t, << Notification("error", "LLM Error: Stream processing error") >>)
    /\ pc' = [pc EXCEPT ![t] = "finally"]
    /\ StreamEnds(t, "failed")
    /\ idle' = [idle EXCEPT ![t] = FALSE]
    /\ UNCHANGED << streamerVars, clientVars, configVars,
                    cancelled_in_backoff, cancelled_again, stop_calls, sleeps, managerVars, kind, input, is_cancelled, buffer,
                    token_count, cur, attempt, attempts, served, yielded,
                    offered, cur_after_cancel, lines_left, tasks_left >>

(* --------------------------- the token loop ---------------------------- *)
\* if self._is_cancelled: return
RunCheckCancelled(t) ==
    /\ pc[t] = "tok155"
    /\ pc' = [pc EXCEPT ![t] = IF IsCancelled(t) THEN "finally" ELSE "tokchk"]
    /\ UNCHANGED << streamerVars, clientVars, configVars,
                    cancelled_in_backoff, cancelled_again, idle, stop_calls, sleeps, managerVars, kind, input, is_cancelled, buffer,
                    token_count, cur, attempt, emitted, attempts, served,
                    yielded, offered, cur_after_cancel, lines_left, tasks_left,
                    stream_end >>

\* the "[ERROR]" branch without its return: the token goes on to _add_token
RunCheckToken_NoReturn(t) ==
    /\ pc[t] = "tokchk"
    /\ IF StartsWith(cur[t].content, ERROR_PREFIX)
       THEN Emit(t, << Notification("error", cur[t].content) >>)
       ELSE UNCHANGED emitted
    /\ offered' = [offered EXCEPT ![t] = Append(@, cur[t].content)]
    /\ pc' = [pc EXCEPT ![t] = "append"]
    /\ UNCHANGED << streamerVars, clientVars, configVars,
                    cancelled_in_backoff, cancelled_again, idle, stop_calls, sleeps, managerVars, kind, input, is_cancelled, buffer,
                    token_count, cur, cur_after_cancel, stream_end,
                    attempt, attempts, served, yielded, lines_left, tasks_left >>

\* the "[ERROR]" check, then _add_token up to its check of the flag
RunCheckToken(t) ==
    /\ pc[t] = "tokchk"
    /\ IF StartsWith(cur[t].content, ERROR_PREFIX)
       THEN /\ Emit(t, << Notification("error", cur[t].content) >>)
            /\ pc' = [pc EXCEPT ![t] = "finally"]
            /\ UNCHANGED << offered, token_count, cur, cur_after_cancel,
                            stream_end >>
       ELSE /\ offered' = [offered EXCEPT ![t] = Append(@, cur[t].content)]
            /\ IF IsCancelled(t)
               THEN /\ token_count' = [token_count EXCEPT ![t] = @ + 1]
                    /\ Emit(t, CadenceProgress(t, token_count[t] + 1))
                    /\ pc' = [pc EXCEPT ![t] = AfterToken(t)]
                    /\ StreamEndsAfterToken(t)
                    /\ cur' = [cur EXCEPT ![t] = NoLine]
                    /\ cur_after_cancel' = [cur_after_cancel EXCEPT ![t] = FALSE]
               ELSE /\ pc' = [pc EXCEPT ![t] = "append"]
                    /\ UNCHANGED << token_count, emitted, cur, cur_after_cancel,
                                    stream_end >>
    /\ UNCHANGED << streamerVars, clientVars, configVars,
                    cancelled_in_backoff, cancelled_again, idle, stop_calls, sleeps, managerVars, kind, input, is_cancelled, buffer,
                    attempt, attempts, served, yielded, lines_left, tasks_left >>

\* _add_token past its check: append, size flush, then the loop's count
RunAppend(t) ==
    /\ pc[t] = "append"
    /\ LET r == AppendToken(buffer[t], cur[t].content, buffer_size) IN
        /\ buffer' = [buffer EXCEPT ![t] = r.buffer]
        /\ Emit(t, r.out \o CadenceProgress(t, token_count[t] + 1))
    /\ token_count' = [token_count EXCEPT ![t] = @ + 1]
    /\ pc' = [pc EXCEPT ![t] = AfterToken(t)]
    /\ StreamEndsAfterToken(t)
    /\ cur' = [cur EXCEPT ![t] = NoLine]
    /\ cur_after_cancel' = [cur_after_cancel EXCEPT ![t] = FALSE]
    /\ UNCHANGED << streamerVars, clientVars, configVars,
                    cancelled_in_backoff, cancelled_again, idle, stop_calls, sleeps, managerVars, kind, input, is_cancelled,
                    attempt, attempts, served, yielded, offered, lines_left, tasks_left >>

\* the stream is exhausted: _stop_streaming() behind the loop
RunStop(t) ==
    /\ pc[t] = "stop1"
    /\ LET r == StopStreaming(buffer[t]) IN
        /\ buffer' = [buffer EXCEPT ![t] = r.buffer]
        /\ Emit(t, r.out)
    /\ pc' = [pc EXCEPT ![t] = "completed"]
    /\ stop_calls' = [stop_calls EXCEPT ![t] = @ + 1]
    /\ UNCHANGED << streamerVars, clientVars, configVars,
                    cancelled_in_backoff, cancelled_again, idle, sleeps, managerVars, kind, input, is_cancelled,
                    token_count, cur, attempt, attempts, served, yielded,
                    offered, cur_after_cancel, lines_left, tasks_left,
                    stream_end >>

\* progress.emit("... completed")
RunCompleted(t) ==
    /\ pc[t] = "completed"
    /\ Emit(t, << Notification("progress", "completed") >>)
    /\ pc' = [pc EXCEPT ![t] = "emit_finished"]
    /\ UNCHANGED << streamerVars, clientVars, configVars,
                    cancelled_in_backoff, cancelled_again, idle, stop_calls, sleeps, managerVars, kind, input, is_cancelled, buffer,
                    token_count, cur, attempt, attempts, served, yielded,
                    offered, cur_after_cancel, lines_left, tasks_left,
                    stream_end >>

\* finished.emit()
RunFinished(t) ==
    /\ pc[t] = "emit_finished"
    /\ Emit(t, << Notification("finished", "") >>)
    /\ pc' = [pc EXCEPT ![t] = "finally"]
    /\ UNCHANGED << streamerVars, clientVars, configVars,
                    cancelled_in_backoff, cancelled_again, idle, stop_calls, sleeps, managerVars, kind, input, is_cancelled, buffer,
                    token_count, cur, attempt, attempts, served, yielded,
                    offered, cur_after_cancel, lines_left, tasks_left,
                    stream_end >>

\* a run() that releases the manager's reference when it ends
RunFinally_ClearsCurrent(t) ==
    /\ pc[t] = "finally"
    /\ LET r == StopStreaming(buffer[t]) IN
        /\ buffer' = [buffer EXCEPT ![t] = r.buffer]
        /\ Emit(t, r.out)
    /\ pc' = [pc EXCEPT ![t] = "done"]
    /\ stop_calls' = [stop_calls EXCEPT ![t] = @ + 1]
    /\ current_task' = IF current_task = t THEN 0 ELSE current_task
    /\ UNCHANGED << streamerVars, clientVars, configVars, task_history,
                    cancelled_in_backoff, cancelled_again, idle, sleeps,
                    kind, input, is_cancelled, token_count, cur, attempt,
                    attempts, served, yielded, offered, cur_after_cancel,
                    lines_left, tasks_left, stream_end >>

\* finally: self._stop_streaming()
RunFinally(t) ==
    /\ pc[t] = "finally"
    /\ LET r == StopStreaming(buffer[t]) IN
        /\ buffer' = [buffer EXCEPT ![t] = r.buffer]
        /\ Emit(t, r.out)
    /\ pc' = [pc EXCEPT ![t] = "done"]
    /\ stop_calls' = [stop_calls EXCEPT ![t] = @ + 1]
    /\ UNCHANGED << streamerVars, clientVars, configVars,
                    cancelled_in_backoff, cancelled_again, idle, sleeps, managerVars, kind, input, is_cancelled,
                    token_count, cur, attempt, attempts, served, yielded,
                    offered, cur_after_cancel, lines_left, tasks_left,
                    stream_end >>

(***************************************************************************)
(* EnhancedLLMClient: payloads and the connection test                     *)
(***************************************************************************)

\* Python's s[:n]
PySliceTo(s, n) ==
    LET stop == IF n >= 0 THEN (IF n < Len(s) THEN n ELSE Len(s))
                ELSE (IF Len(s) + n > 0 THEN Len(s) + n ELSE 0)
    IN SubSeq(s, 1, stop)

\* Python's s[i:]
PySliceFrom(s, i) ==
    LET start == IF i >= 0 THEN (IF i < Len(s) THEN i ELSE Len(s))
                 ELSE (IF Len(s) + i > 0 THEN Len(s) + i ELSE 0)
    IN SubSeq(s, start + 1, Len(s))

\* config.max_conversation_length // 2
HalfCap(limit) == limit \div 2

TruncateCode_KeepsTail(code, limit) ==
    IF Len(code) > HalfCap(limit)
    THEN PySliceFrom(code, Len(code) - HalfCap(limit)) \o CODE_MARKER
    ELSE code

\* stream_code_review: truncate very large code samples
TruncateCode(code, limit) ==
    IF Len(code) > HalfCap(limit)
    THEN PySliceTo(code, HalfCap(limit)) \o CODE_MARKER
    ELSE code

\* stream_follow_up: keep the end of the review
TruncateReview(original_review, limit) ==
    IF Len(original_review) > HalfCap(limit)
    THEN REVIEW_MARKER \o PySliceFrom(original_review, 0 - HalfCap(limit))
    ELSE original_review

\* the markdown fence around the code is three backquotes in the source; a
\* TLA+ string cannot hold a backquote, so each is written as an apostrophe
\* (same length, and like the backquote it occurs in none of Texts)
REVIEW_USER_PREFIX == "Please review the following Python code:\n\n'''python\n"
REVIEW_USER_SUFFIX == "\n'''"
PREVIOUS_REVIEW_PREFIX == "Previous review:\n\n"
QUESTION_PREFIX == "Follow-up question: "

CreateReviewPayload(code) ==
    [ model |-> MODEL_NAME,
      stream |-> TRUE,
      messages |->
        << [role |-> "system", content |-> REVIEW_SYSTEM_MESSAGE],
           [role |-> "user",
            content |-> REVIEW_USER_PREFIX \o code \o REVIEW_USER_SUFFIX] >> ]

CreateFollowupPayload(original_review, question) ==
    [ model |-> MODEL_NAME,
      stream |-> TRUE,
      messages |->
        << [role |-> "system", content |-> FOLLOWUP_SYSTEM_MESSAGE],
           [role |-> "user",
            content |-> PREVIOUS_REVIEW_PREFIX \o original_review],
           [role |-> "user", content |-> QUESTION_PREFIX \o question] >> ]

\* stream_code_review up to the payload it hands to _stream_response
StreamCodeReview ==
    /\ \E code \in Texts :
        /\ request' = [op |-> "review", text |-> code, question |-> ""]
        /\ payload' =
             IF IsBlank(code)
             THEN NoPayload
             ELSE CreateReviewPayload(
                      TruncateCode(code, max_conversation_length))
    /\ UNCHANGED << streamerVars, taskVars, max_conversation_length, connection_test >>

\* stream_follow_up up to the payload it hands to _stream_response
StreamFollowUp ==
    /\ \E original_review \in Texts, question \in Texts :
        /\ request' = [op |-> "followup", text |-> original_review,
                       question |-> question]
        /\ payload' =
             IF IsBlank(question)
             THEN NoPayload
             ELSE CreateFollowupPayload(
                      TruncateReview(original_review,
                                     max_conversation_length),
                      question)
    /\ UNCHANGED << streamerVars, taskVars, max_conversation_length, connection_test >>

RaisesForStatus_ServerOnly(status) == 500 <= status /\ status < 600

\* requests.Response.raise_for_status
RaisesForStatus(status) == 400 <= status /\ status < 600

\* test_connection: the try block returns True unless something raised,
\* and the except clause turns whatever was raised into False
ConnectionResult(outcome) ==
    LET caught == \/ outcome.transport # "ok"
                  \/ RaisesForStatus(outcome.status)
    IN [outcome |-> outcome, returned |-> ~caught, raised |-> FALSE]

TestConnection ==
    /\ \E outcome \in GetOutcomes :
        connection_test' = ConnectionResult(outcome)
    /\ UNCHANGED << streamerVars, taskVars, max_conversation_length, request, payload >>

(* -------------------- the two buffering paths -------------------------- *)
\* One task built twice, once with HAS_CPP_BACKEND False and once with it
\* True, and fed the same tokens.  core_performance is not in the sources:
\* AdaptiveTextStreamer follows the AdaptiveBuffer contract of the
\* specification; the callback and the wiring around it are the task's.
StreamerTokens == {"a", "b"}

\* AdaptiveTextStreamer.add_token: the size trigger
NativeAddToken(pending, token, size) ==
    IF Len(Append(pending, token)) >= size
    THEN [pending |-> << >>, out |-> << Join(Append(pending, token)) >>]
    ELSE [pending |-> Append(pending, token), out |-> << >>]

\* AdaptiveTextStreamer: the time trigger and stop_streaming both emit
\* what is pending, if anything
NativeFlush(pending) ==
    IF pending # << >>
    THEN [pending |-> << >>, out |-> << Join(pending) >>]
    ELSE [pending |-> pending, out |-> << >>]

\* content_callback: posts one ContentReadyEvent per chunk to self.signals
\* unless the task is cancelled
ContentCallback(chunks, cancelled) == IF cancelled THEN << >> ELSE chunks

\* what reaches append_content when Qt hands a ContentReadyEvent to
\* self.signals: ReviewWorkerSignals overrides neither event() nor
\* customEvent(), so content_ready is not emitted
SignalsEvent(event) == << >>

\* what reaches append_content when content_ready is emitted
\* (_connect_signals)
ContentReady(out) == [i \in 1..Len(out) |-> out[i].text]

\* _start_streaming
StartStreaming ==
    /\ streaming = "created"
    /\ streaming' = "streaming"
    /\ UNCHANGED << taskVars, clientVars, fed, stream_cancelled, py_buffer,
                    py_delivered, cpp_pending, cpp_emitted, cpp_posted,
                    cpp_delivered >>

\* _add_token(token) on both paths
AddToken ==
    /\ streaming = "streaming"
    /\ Len(fed) < MaxFed
    /\ \E token \in StreamerTokens :
        /\ fed' = Append(fed, token)
        /\ IF stream_cancelled
           THEN UNCHANGED << py_buffer, py_delivered, cpp_pending,
                             cpp_emitted, cpp_posted >>
           ELSE LET py == AppendToken(py_buffer, token, buffer_size)
                    cpp == NativeAddToken(cpp_pending, token, buffer_size)
                IN /\ py_buffer' = py.buffer
                   /\ py_delivered' = py_delivered \o ContentReady(py.out)
                   /\ cpp_pending' = cpp.pending
                   /\ cpp_emitted' = cpp_emitted \o cpp.out
                   /\ cpp_posted' = cpp_posted
                                    \o ContentCallback(cpp.out, FALSE)
    /\ UNCHANGED << taskVars, clientVars, streaming, stream_cancelled,
                    cpp_delivered >>

\* flush_interval_ms goes by: the native streamer's time trigger fires; the
\* fallback has no timer
TimeTrigger ==
    /\ streaming = "streaming"
    /\ cpp_pending # << >>
    /\ LET cpp == NativeFlush(cpp_pending)
       IN /\ cpp_pending' = cpp.pending
          /\ cpp_emitted' = cpp_emitted \o cpp.out
          /\ cpp_posted' = cpp_posted
                           \o ContentCallback(cpp.out, stream_cancelled)
    /\ UNCHANGED << taskVars, clientVars, streaming, fed, stream_cancelled,
                    py_buffer, py_delivered, cpp_delivered >>

\* cancel(): sets the flag and, on the native path, stops the streamer
CancelStreaming ==
    /\ streaming = "streaming"
    /\ ~stream_cancelled
    /\ stream_cancelled' = TRUE
    /\ LET cpp == NativeFlush(cpp_pending)
       IN /\ cpp_pending' = cpp.pending
          /\ cpp_emitted' = cpp_emitted \o cpp.out
          /\ cpp_posted' = cpp_posted \o ContentCallback(cpp.out, TRUE)
    /\ UNCHANGED << taskVars, clientVars, streaming, fed, py_buffer,
                    py_delivered, cpp_delivered >>

\* _stop_streaming on both paths
StopStreamingBoth ==
    /\ streaming = "streaming"
    /\ streaming' = "stopped"
    /\ LET py == StopStreaming(py_buffer)
           cpp == NativeFlush(cpp_pending)
       IN /\ py_buffer' = py.buffer
          /\ py_delivered' = py_delivered \o ContentReady(py.out)
          /\ cpp_pending' = cpp.pending
          /\ cpp_emitted' = cpp_emitted \o cpp.out
          /\ cpp_posted' = cpp_posted
                           \o ContentCallback(cpp.out, stream_cancelled)
    /\ UNCHANGED << taskVars, clientVars, fed, stream_cancelled,
                    cpp_delivered >>

\* the GUI thread's event loop dispatches the oldest posted event
DispatchEvent ==
    /\ cpp_posted # << >>
    /\ cpp_posted' = Tail(cpp_posted)
    /\ cpp_delivered' = cpp_delivered \o SignalsEvent(Head(cpp_posted))
    /\ UNCHANGED << taskVars, clientVars, streaming, fed, stream_cancelled,
                    py_buffer, py_delivered, cpp_pending, cpp_emitted >>

NextStreamer ==
    \/ StartStreaming
    \/ AddToken
    \/ TimeTrigger
    \/ CancelStreaming
    \/ StopStreamingBoth
    \/ DispatchEvent

NextClient ==
    \/ StreamCodeReview
    \/ StreamFollowUp
    \/ TestConnection

Next ==
    \/ StartReview
    \/ StartFollowup
    \/ CancelTask
    \/ \E t \in TaskIds :
        \/ RunBegin(t)
        \/ RunSeparator(t)
        \/ RunSeparatorAppend(t)
        \/ RunPost(t)
        \/ RunReadLine(t)
        \/ WaitForLine(t)
        \/ RunReadEnd(t)
        \/ RunReadFail(t)
        \/ RunCheckCancelled(t)
        \/ RunCheckToken(t)
        \/ RunAppend(t)
        \/ RunStop(t)
        \/ RunCompleted(t)
        \/ RunFinished(t)
        \/ RunFinally(t)

Spec == Init /\ [][Next]_vars

SpecTask == InitTask /\ [][Next]_vars

\* a step of the pool thread that runs task t
WorkerStep(t) ==
    \/ RunBegin(t)
    \/ RunSeparator(t)
    \/ RunSeparatorAppend(t)
    \/ RunPost(t)
    \/ RunReadLine(t)
    \/ RunReadEnd(t)
    \/ RunReadFail(t)
    \/ RunCheckCancelled(t)
    \/ RunCheckToken(t)
    \/ RunAppend(t)
    \/ RunStop(t)
    \/ RunCompleted(t)
    \/ RunFinished(t)
    \/ RunFinally(t)

\* one task whose worker the pool keeps running: a started task is run, a
\* POST returns or raises, and a response body ends
SpecTaskFair ==
    InitTask /\ [][Next]_vars /\ \A t \in TaskIds : WF_vars(WorkerStep(t))

SpecClient == InitClient /\ [][NextClient]_vars

SpecStreamer == InitStreamer /\ [][NextStreamer]_vars

(* ------------------------------ properties ----------------------------- *)
\* run() has called _stop_streaming() behind the token loop
Stopped(t) == pc[t] \in {"completed", "emit_finished", "done"}

\* C1: on a task that is not cancelled, once _stop_streaming has run, the
\* content chunks emitted, joined in emission order, are the tokens passed
\* to _add_token, joined in arrival order.
C1_LosslessCoalescing ==
    \A t \in TaskIds :
        (Stopped(t) /\ ~is_cancelled[t]) =>
            ContentOf(emitted[t]) = Join(offered[t])

\* three tokens went through a buffer of two: one size flush, one final flush
C1_Witness ==
    \E t \in TaskIds :
        /\ Stopped(t) /\ ~is_cancelled[t]
        /\ buffer_size = 2
        /\ Len(offered[t]) = 3
        /\ Count(emitted[t], "content") = 2
\* a later start_review / start_followup has returned
Superseded(t) == t < Len(task_history)

\* C2: once a later start_* call has returned, no notification of an
\* earlier task reaches the caller any more.
C2_OnlyNewestTaskNotifies ==
    [][\A t \in TaskIds : Superseded(t) => emitted'[t] = emitted[t]]_vars

\* C3: once cancel() has been called on a task, the task emits neither an
\* error nor a finished notification.
C3_NoErrorNoFinishedAfterCancel ==
    [][\A t \in TaskIds :
            is_cancelled[t] =>
                /\ Count(emitted'[t], "error") = Count(emitted[t], "error")
                /\ Count(emitted'[t], "finished") = Count(emitted[t], "finished")]_vars

\* C4: a token the stream yielded after the cancellation flag was set never
\* gets to the append of _add_token.
C4_NoTokenForwardedAfterCancel ==
    \A t \in TaskIds : pc[t] \in {"tokchk", "append"} => ~cur_after_cancel[t]

\* a token yielded with the flag set was dropped by the check in run()
C4_Witness ==
    \E t \in TaskIds :
        /\ cur_after_cancel[t]
        /\ pc[t] \in {"finally", "done"}
        /\ yielded[t] # << >>
        /\ offered[t] = << >>
\* every POST of the task so far failed with a connection or timeout error
AllRetryable(t) == \A i \in 1..Len(attempts[t]) : Retryable(attempts[t][i])

\* the first max_retries POSTs failed that way and the next one succeeded
RetryThenSuccess(t) ==
    /\ max_retries >= 0
    /\ Len(attempts[t]) = max_retries + 1
    /\ \A i \in 1..max_retries : Retryable(attempts[t][i])
    /\ attempts[t][max_retries + 1] = "ok"

\* all max_retries + 1 POSTs failed that way
RetriesExhausted(t) ==
    /\ max_retries >= 0
    /\ Len(attempts[t]) = max_retries + 1
    /\ AllRetryable(t)

\* the records among the lines
IsRecord(line) == line.body = "record"

\* the message.content fields of the records, up to and including the
\* first record marked done
RECURSIVE RecordTokens(_)
RecordTokens(lines) ==
    IF lines = << >> THEN << >>
    ELSE LET l == Head(lines)
             own == IF IsRecord(l) /\ l.content # "" THEN << l.content >> ELSE << >>
         IN IF IsRecord(l) /\ l.done THEN own ELSE own \o RecordTokens(Tail(lines))

NoErrorToken(t) ==
    \A i \in 1..Len(yielded[t]) : ~StartsWith(yielded[t][i], ERROR_PREFIX)

\* the response was read to its end, none of its tokens was error-shaped
\* and nobody cancelled
CleanRun(t) ==
    /\ pc[t] = "done"
    /\ stream_end[t] = "exhausted"
    /\ NoErrorToken(t)
    /\ ~is_cancelled[t]

\* C5: while only the first max_retries POSTs have failed with connection
\* or timeout errors no error is reported and the task goes on to the next
\* POST; when POST max_retries + 1 then succeeds the stream yields exactly
\* the tokens of that response, and a run that reads it to its end
\* uncancelled emits finished once and no error.
C5_RetryThenSuccess ==
    \A t \in TaskIds :
        /\ (attempts[t] # << >> /\ AllRetryable(t) /\ Len(attempts[t]) <= max_retries) =>
                (pc[t] = "post" /\ Count(emitted[t], "error") = 0)
        /\ RetryThenSuccess(t) => yielded[t] = RecordTokens(served[t])
        /\ (RetryThenSuccess(t) /\ CleanRun(t)) =>
                /\ Count(emitted[t], "finished") = 1
                /\ Count(emitted[t], "error") = 0

\* one failed POST, then a response of two tokens read to its end
C5_Witness ==
    \E t \in TaskIds :
        /\ max_retries = 1
        /\ RetryThenSuccess(t) /\ CleanRun(t)
        /\ Len(yielded[t]) = 2

\* C6: when all max_retries + 1 POSTs failed with connection or timeout
\* errors the task has emitted exactly one error and no finished, and no
\* error is emitted while fewer POSTs than that have failed.
C6_RetryExhaustion ==
    \A t \in TaskIds :
        /\ RetriesExhausted(t) =>
                /\ Count(emitted[t], "error") = 1
                /\ Count(emitted[t], "finished") = 0
                /\ pc[t] \in {"finally", "done"}
        /\ (attempts[t] # << >> /\ AllRetryable(t) /\ Count(emitted[t], "error") > 0) =>
                Len(attempts[t]) = max_retries + 1

\* two POSTs failed with max_retries = 1 and the run is over
C6_Witness ==
    \E t \in TaskIds :
        /\ max_retries = 1
        /\ RetriesExhausted(t)
        /\ attempts[t] = << "connection", "timeout" >>
        /\ pc[t] = "done"
\* what a follow-up puts into the buffer ahead of the stream
Lead(t) == IF kind[t] = "followup" THEN Separator(input[t]) ELSE ""

\* the last POST made returned a success status
StreamSucceeded(t) ==
    attempts[t] # << >> /\ attempts[t][Len(attempts[t])] = "ok"

ContentBeforeFinished(log) ==
    \A i, j \in 1..Len(log) :
        (log[i].type = "content" /\ log[j].type = "finished") => i < j

\* C7: a task with non-blank input whose stream succeeds, is read to its
\* end without an error-shaped token and is not cancelled has emitted
\* content whose concatenation is the message.content of the records up to
\* and including the done record (behind the separator for a follow-up) and
\* exactly one finished; no task emits content behind its finished.
C7_EndToEndOrder ==
    \A t \in TaskIds :
        /\ (CleanRun(t) /\ StreamSucceeded(t) /\ ~IsBlank(input[t])) =>
                /\ ContentOf(emitted[t]) = Lead(t) \o Join(RecordTokens(served[t]))
                /\ Count(emitted[t], "finished") = 1
        /\ ContentBeforeFinished(emitted[t])

\* the scenario of the specification: "Looks", then " fine." marked done
C7_Witness ==
    \E t \in TaskIds :
        /\ CleanRun(t) /\ StreamSucceeded(t)
        /\ kind[t] = "review"
        /\ Len(served[t]) = 2
        /\ ContentOf(emitted[t]) = "Looks fine."
        /\ Count(emitted[t], "finished") = 1

\* C8: a task emits at most one error and at most one finished, and never
\* both.
C8_OneTerminalOutcome ==
    \A t \in TaskIds :
        /\ Count(emitted[t], "error") <= 1
        /\ Count(emitted[t], "finished") <= 1
        /\ Count(emitted[t], "error") + Count(emitted[t], "finished") <= 1

\* an error-shaped token ended a run that had streamed a token before
C8_Witness ==
    \E t \in TaskIds :
        /\ pc[t] = "done"
        /\ Len(yielded[t]) = 2
        /\ ~NoErrorToken(t)
        /\ Count(emitted[t], "error") = 1

\* C9: once a task has emitted its error or has been cancelled it emits no
\* further notification of any kind.
C9_TerminalStatesSilent ==
    [][\A t \in TaskIds :
            (is_cancelled[t] \/ Count(emitted[t], "error") > 0) =>
                emitted'[t] = emitted[t]]_vars

\* run() is in its token loop: no _stop_streaming() yet
InLoop(t) ==
    pc[t] \in {"sep", "sep_append", "post", "read", "tok155", "tokchk", "append", "stop1"}

\* tokens _add_token has appended: those passed to it, less the one whose
\* append is still to come
Fed(t) ==
    IF pc[t] \in {"sep_append", "append"}
    THEN SubSeq(offered[t], 1, Len(offered[t]) - 1) ELSE offered[t]

\* C10: before any stop, on a task that is not cancelled: fewer than
\* buffer_size tokens fed leave them all pending with no content emitted;
\* exactly buffer_size tokens fed have triggered exactly one content
\* emission, which holds all of them, and left nothing pending.
C10_SizeTrigger ==
    \A t \in TaskIds :
        (InLoop(t) /\ ~is_cancelled[t]) =>
            /\ Len(Fed(t)) < buffer_size =>
                    /\ Count(emitted[t], "content") = 0
                    /\ buffer[t] = Fed(t)
            /\ Len(Fed(t)) = buffer_size =>
                    /\ SelectSeq(emitted[t], LAMBDA n : n.type = "content")
                            = << Notification("content", Join(Fed(t))) >>
                    /\ buffer[t] = << >>

\* two tokens filled a buffer of two and came out as one chunk
C10_Witness ==
    \E t \in TaskIds :
        /\ InLoop(t) /\ ~is_cancelled[t]
        /\ buffer_size = 2
        /\ Len(Fed(t)) = 2
        /\ Count(emitted[t], "content") = 1

(***************************************************************************)
(* Time trigger, validation, cancel (SpecTask)                             *)
(***************************************************************************)

\* C11: once more than flush_interval_ms has gone by since the last token
\* was fed, with no further token and no stop, the pending tokens have been
\* emitted: nothing is left in the buffer.
C11_TimeTrigger ==
    \A t \in TaskIds : idle[t] => buffer[t] = << >>

\* empty or whitespace-only, among Inputs
WhitespaceOnly(s) == s \in {"", " "}

CreatedTasks == 1..Len(task_history)

\* C12: a review task whose code, or a follow-up task whose question, is
\* empty or whitespace-only issues no HTTP request, emits no finished and no
\* content notification, and ends with exactly one error notification.
C12_ValidationFailsFast ==
    \A t \in CreatedTasks :
        WhitespaceOnly(input[t]) =>
            /\ attempts[t] = << >>
            /\ Count(emitted[t], "finished") = 0
            /\ Count(emitted[t], "content") = 0
            /\ pc[t] \in {"queued", "finally", "done"}
            /\ Count(emitted[t], "error") = (IF pc[t] = "queued" THEN 0 ELSE 1)

\* a follow-up with a whitespace-only question has run to its end
C12_Witness ==
    \E t \in CreatedTasks :
        /\ kind[t] = "followup"
        /\ input[t] = " "
        /\ pc[t] = "done"
        /\ Count(emitted[t], "error") = 1

\* what a task is and what its caller has seen of it
TaskState(t) ==
    << is_cancelled[t], buffer[t], token_count[t], pc[t], cur[t], attempt[t],
       emitted[t] >>

\* C13: a cancel() on a task that was cancelled before leaves the task and
\* the notifications its caller has seen as they were, the flag stays set
\* once set, and the manager's cancel with no current task changes no flag.
C13_CancelIdempotent ==
    [][ /\ \A t \in TaskIds :
            /\ (cancelled_again'[t] /\ ~cancelled_again[t]) =>
                   TaskState(t)' = TaskState(t)
            /\ is_cancelled[t] => is_cancelled'[t]
        /\ current_task = 0 => is_cancelled' = is_cancelled ]_vars

\* cancel() was called again on a cancelled task, which then went on to its end
C13_Witness ==
    \E t \in CreatedTasks :
        /\ cancelled_again[t]
        /\ is_cancelled[t]
        /\ pc[t] = "done"

(***************************************************************************)
(* The manager's tasks (Spec)                                              *)
(***************************************************************************)

\* C18: after any sequence of start_review / start_followup calls every task
\* but the most recently created one has its cancellation flag set, also
\* when the new input is empty, so at most one created task is uncancelled,
\* and current_task is the most recently created task.
C18_SingleUncancelledTask ==
    /\ \A t \in CreatedTasks : t < Len(task_history) => is_cancelled[t]
    /\ Cardinality({t \in CreatedTasks : ~is_cancelled[t]}) <= 1
    /\ Len(task_history) > 0 => current_task = Len(task_history)

\* a second task was started with empty input over an uncancelled first one
C18_Witness ==
    /\ Len(task_history) = 2
    /\ input[2] = ""
    /\ is_cancelled[1]
    /\ ~cancelled_again[1]
    /\ ~is_cancelled[2]
    /\ current_task = 2

(***************************************************************************)
(* Stop and retry (SpecTask)                                               *)
(***************************************************************************)

\* C19: on every exit path of run() the buffer's stop operation
\* (_stop_streaming) has been invoked exactly once when run() returns.
C19_StopExactlyOnce ==
    \A t \in TaskIds : pc[t] = "done" => stop_calls[t] = 1

NonRetryableFailures == {"http", "request"}

\* C20: an attempt that fails with an HTTP error status or a request error
\* other than connection/timeout, and a response whose body fails while it
\* is read, end the stream call with that failure: the attempt is the last
\* POST, no backoff sleep follows it, whatever its index, and every sleep
\* and every further POST follows a connection or timeout failure.
C20_NonRetryableNotRetried ==
    \A t \in TaskIds :
        LET n == Len(attempts[t]) IN
        /\ \A i \in 1..n :
            attempts[t][i] \in NonRetryableFailures =>
                /\ i = n
                /\ stream_end[t] = "failed"
                /\ pc[t] \in {"finally", "done"}
                /\ Len(sleeps[t]) = i - 1
                /\ Count(emitted[t], "error") = 1
        /\ (n > 0 /\ attempts[t][n] = "ok" /\ stream_end[t] = "failed") =>
                /\ pc[t] \in {"finally", "done"}
                /\ Len(sleeps[t]) = n - 1
        /\ \A i \in 1..(n - 1) : attempts[t][i] \in {"connection", "timeout"}
        /\ Len(sleeps[t]) <= n
        /\ \A j \in 1..Len(sleeps[t]) :
                attempts[t][j] \in {"connection", "timeout"}

\* the second POST, made after one backoff sleep, failed with an HTTP error
C20_Witness ==
    \E t \in TaskIds :
        /\ attempts[t] = << "timeout", "http" >>
        /\ sleeps[t] = << 1 >>
        /\ pc[t] = "done"

(***************************************************************************)
(* The client's payloads and connection test (SpecClient)                  *)
(***************************************************************************)

\* the last n characters of s, all of s when n exceeds its length
LastChars(s, n) ==
    IF n >= Len(s) THEN s ELSE SubSeq(s, Len(s) - n + 1, Len(s))

\* the first n characters of s, all of s when n exceeds its length
FirstChars(s, n) ==
    IF n >= Len(s) THEN s ELSE SubSeq(s, 1, n)

\* a content with its fixed frame taken off
Unframed(content, prefix, suffix) ==
    SubSeq(content, Len(prefix) + 1, Len(content) - Len(suffix))

ReviewRequested == request.op = "review" /\ payload # NoPayload
FollowUpRequested == request.op = "followup" /\ payload # NoPayload

PlacedCode ==
    Unframed(payload.messages[2].content, REVIEW_USER_PREFIX,
             REVIEW_USER_SUFFIX)
PlacedReview ==
    Unframed(payload.messages[2].content, PREVIOUS_REVIEW_PREFIX, "")
PlacedQuestion ==
    Unframed(payload.messages[3].content, QUESTION_PREFIX, "")

\* C14: for any configured cap (max_conversation_length // 2), a review
\* longer than the cap is placed in the follow-up payload as the truncation
\* marker followed by exactly its last cap characters, and a review of
\* length at most the cap is placed unchanged, with no marker.
C14_FollowUpKeepsTail ==
    FollowUpRequested =>
        LET cap == HalfCap(max_conversation_length)
        IN PlacedReview =
             IF Len(request.text) > cap
             THEN REVIEW_MARKER \o LastChars(request.text, cap)
             ELSE request.text

\* C15: for every request issued, review or follow-up, the texts placed in
\* the payload (the code, or the prior review and the question, with their
\* truncation markers) total at most max_conversation_length characters.
C15_ConversationLengthCap ==
    /\ ReviewRequested => Len(PlacedCode) <= max_conversation_length
    /\ FollowUpRequested =>
         Len(PlacedReview) + Len(PlacedQuestion) <= max_conversation_length

\* C16: the code placed in a review payload is capped at half of
\* max_conversation_length: code longer than the cap is placed as its first
\* cap characters followed by the truncation marker, and code of length at
\* most the cap is placed unchanged, with no marker.
C16_CodeTruncation ==
    ReviewRequested =>
        LET cap == HalfCap(max_conversation_length)
        IN /\ Len(payload.messages) = 2
           /\ payload.messages[2].role = "user"
           /\ payload.messages[2].content =
                REVIEW_USER_PREFIX
                \o (IF Len(request.text) > cap
                    THEN FirstChars(request.text, cap) \o CODE_MARKER
                    ELSE request.text)
                \o REVIEW_USER_SUFFIX

\* a review whose code, longer than a cap of at least one character, was cut
C16_Witness ==
    /\ ReviewRequested
    /\ HalfCap(max_conversation_length) >= 1
    /\ Len(request.text) > HalfCap(max_conversation_length)
    /\ PlacedCode = FirstChars(request.text, 1) \o CODE_MARKER

ConnectionTested == connection_test # NoConnectionTest

ConnectionOrTimeout == {"connection", "timeout"}

\* the POSTs so far that failed with a connection or timeout error and were
\* not the last one the loop allows
RetriedAttempts(t) ==
    {i \in 1..Len(attempts[t]) :
        attempts[t][i] \in ConnectionOrTimeout /\ i - 1 < max_retries}

C22_CancelHonouredAtRetryBoundary ==
    [][\A t \in TaskIds :
            cancelled_in_backoff[t] => attempts'[t] = attempts[t]]_vars

(***************************************************************************)
(* Tasks side by side (Spec)                                               *)
(***************************************************************************)

\* the task's stream call holds the client's session: it stands between
\* two attempts of the retry loop, or it reads the body of its response
HttpInProgress(t) == BetweenAttempts(t) \/ pc[t] = "read"

\* C23: at no time do two tasks both have an HTTP request (POST,
\* backoff-retry loop or streaming read) in progress on the one client
\* session.
C23_NoConcurrentRequests ==
    Cardinality({t \in TaskIds : HttpInProgress(t)}) <= 1

(***************************************************************************)
(* The decoder of _process_stream (SpecTask)                               *)
(***************************************************************************)

\* a line that is neither empty nor a record: bytes that are not UTF-8,
\* text that is not JSON, JSON that is no object
Unparsable(line) == line.body \in {"undecodable", "garbage", "scalar"}

\* the step reads one more line of task t's response, and it is this one
Reads(t, line) == served'[t] = Append(served[t], line)

\* C24: a response line that cannot be parsed as a record is skipped: the
\* step that reads it leaves the decoder reading, yields nothing, does not
\* end the stream and brings no error to the caller.
C24_DecodeFailureIsLocal ==
    [][\A t \in TaskIds : \A line \in Lines :
            (Reads(t, line) /\ Unparsable(line)) =>
                /\ pc'[t] = "read"
                /\ yielded'[t] = yielded[t]
                /\ stream_end'[t] = stream_end[t]
                /\ emitted'[t] = emitted[t]]_vars

\* a record that carries done = true
DoneRecord(line) == line.body = "record" /\ line.done

\* C25: the decoder yields the content of the record carrying done = true,
\* if it is non-empty, as its last token and then ends normally: no line
\* behind the first done record is read, so none of them yields a token,
\* and an end by done is not an error.
C25_DoneEndsTheStream ==
    \A t \in TaskIds :
        \A i \in 1..Len(served[t]) :
            DoneRecord(served[t][i]) =>
                /\ i = Len(served[t])
                /\ pc[t] # "read"
                /\ yielded[t] = RecordTokens(served[t])
                /\ served[t][i].content # "" =>
                        /\ yielded[t] # << >>
                        /\ yielded[t][Len(yielded[t])] = served[t][i].content
                /\ stream_end[t] # "failed"
                /\ NoErrorToken(t) => Count(emitted[t], "error") = 0
                /\ (pc[t] = "done" /\ NoErrorToken(t) /\ ~is_cancelled[t]) =>
                        /\ stream_end[t] = "exhausted"
                        /\ Count(emitted[t], "finished") = 1

\* a done record with content ended a run while the server had a line left
C25_Witness ==
    \E t \in TaskIds :
        /\ pc[t] = "done"
        /\ lines_left > 0
        /\ Len(served[t]) = 2
        /\ DoneRecord(served[t][2])
        /\ yielded[t] = << "Looks", " fine." >>
        /\ stream_end[t] = "exhausted"
        /\ Count(emitted[t], "error") = 0

(***************************************************************************)
(* The token loop of run() (SpecTask)                                      *)
(***************************************************************************)

\* the token begins with "[ERROR]"
ErrorShaped(token) == Len(token) >= 7 /\ SubSeq(token, 1, 7) = "[ERROR]"

\* the task has emitted an error notification carrying this text
ErrorCarrying(t, text) ==
    \E k \in 1..Len(emitted[t]) : emitted[t][k] = Notification("error", text)

\* C26: when the stream yields a token beginning with "[ERROR]", that token
\* is the last one taken from the stream, neither it nor any later token is
\* passed to the buffer, no finished is emitted, and the task, once past
\* the token and unless it was cancelled, has emitted exactly one error,
\* which carries the token.
C26_ErrorTokenShortCircuits ==
    \A t \in TaskIds :
        \A i \in 1..Len(yielded[t]) :
            ErrorShaped(yielded[t][i]) =>
                /\ i = Len(yielded[t])
                /\ pc[t] \in {"tok155", "tokchk", "finally", "done"}
                /\ \A j \in 1..Len(offered[t]) : ~ErrorShaped(offered[t][j])
                /\ Len(offered[t]) <=
                        (i - 1) + (IF kind[t] = "followup" THEN 1 ELSE 0)
                /\ Count(emitted[t], "finished") = 0
                /\ Count(emitted[t], "error") <= 1
                /\ (pc[t] \in {"finally", "done"} /\ ~is_cancelled[t]) =>
                        /\ Count(emitted[t], "error") = 1
                        /\ ErrorCarrying(t, yielded[t][i])

\* the first token of a follow-up's stream was error-shaped
C26_Witness ==
    \E t \in TaskIds :
        /\ kind[t] = "followup"
        /\ pc[t] = "done"
        /\ yielded[t] = << "[ERROR] x" >>
        /\ offered[t] = << Separator(input[t]) >>
        /\ ErrorCarrying(t, "[ERROR] x")
        /\ Count(emitted[t], "finished") = 0

\* everything the task has put into its buffer, emitted or still pending
AllContent(t) == ContentOf(emitted[t]) \o Join(buffer[t])

\* the separator followed by the first n tokens of the stream
SeparatorThenTokens(t, n) ==
    Separator(input[t]) \o Join(SubSeq(yielded[t], 1, n))

\* C27: a follow-up task with a non-empty question passes the separator
\* with the restated question to the buffer before its first HTTP attempt
\* and before any streamed token; unless the task was cancelled the
\* separator is then in the buffer, and whatever content the task has put
\* out starts with the separator, followed by streamed tokens in arrival
\* order.
C27_SeparatorFirst ==
    \A t \in TaskIds :
        (kind[t] = "followup" /\ ~WhitespaceOnly(input[t])) =>
            /\ (attempts[t] # << >> \/ yielded[t] # << >>) =>
                    /\ offered[t] # << >>
                    /\ offered[t][1] = Separator(input[t])
                    /\ \/ is_cancelled[t] /\ AllContent(t) = ""
                       \/ \E n \in 0..Len(yielded[t]) :
                              AllContent(t) = SeparatorThenTokens(t, n)
            /\ attempts[t] = << >> =>
                    AllContent(t) \in {"", Separator(input[t])}
            /\ (pc[t] = "done" /\ ~is_cancelled[t] /\ NoErrorToken(t)) =>
                    ContentOf(emitted[t]) =
                        SeparatorThenTokens(t, Len(yielded[t]))

\* a follow-up streamed two tokens behind its separator
C27_Witness ==
    \E t \in TaskIds :
        /\ kind[t] = "followup"
        /\ input[t] = "x"
        /\ pc[t] = "done"
        /\ ~is_cancelled[t]
        /\ Len(yielded[t]) = 2
        /\ ContentOf(emitted[t]) = Separator("x") \o "Looks fine."

(***************************************************************************)
(* The manager's history (Spec)                                            *)
(***************************************************************************)

\* the step is a start_review / start_followup call
StartCalled == tasks_left' = tasks_left - 1

\* C28: every start_review / start_followup call appends exactly one
\* (kind, size) entry to task_history, no step removes or rewrites an entry,
\* and after every step get_stats reports total_tasks equal to reviews +
\* followups and equal to the number of start_* calls made so far.
C28_HistoryAppendOnly ==
    [][ /\ StartCalled =>
                \E k \in {"review", "followup"}, text \in Inputs :
                    task_history' = Append(task_history, << k, Len(text) >>)
        /\ ~StartCalled => task_history' = task_history
        /\ GetStats'.total_tasks = GetStats'.reviews + GetStats'.followups
        /\ GetStats'.total_tasks = MaxTasks - tasks_left' ]_vars

\* a review of one character and a follow-up with an empty question
C28_Witness ==
    /\ task_history = << << "review", 1 >>, << "followup", 0 >> >>
    /\ tasks_left = MaxTasks - 2
    /\ GetStats = [total_tasks |-> 2, reviews |-> 1, followups |-> 1,
                   has_current_task |-> TRUE]

(***************************************************************************)
(* Retries and the response body (SpecTask)                                *)
(***************************************************************************)

\* the POSTs that were answered with a success status, whose body the
\* stream then read
StreamedAttempts(t) ==
    {i \in 1..Len(attempts[t]) : attempts[t][i] = "ok"}

\* C29: all tokens a stream call yields come from one HTTP attempt: at most
\* one POST is answered with a body, it is the last POST of the call, every
\* POST before it failed before any line was read, and a failure while the
\* body is read, with or without tokens yielded, is surfaced as an error
\* and followed by no further POST and no further sleep.
C29_NoTokenDuplication ==
    \A t \in TaskIds :
        LET n == Len(attempts[t]) IN
        /\ Cardinality(StreamedAttempts(t)) <= 1
        /\ \A i \in StreamedAttempts(t) : i = n
        /\ (served[t] # << >> \/ yielded[t] # << >>) =>
                n \in StreamedAttempts(t)
        /\ yielded[t] = RecordTokens(served[t])
        /\ \A i \in 1..(n - 1) : attempts[t][i] \in ConnectionOrTimeout
        /\ (n \in StreamedAttempts(t) /\ stream_end[t] = "failed") =>
                /\ pc[t] \in {"finally", "done"}
                /\ Len(sleeps[t]) = n - 1
                /\ Count(emitted[t], "error") = 1
                /\ ErrorCarrying(t, "LLM Error: Stream processing error")

\* the first response broke after one token, with a retry still allowed
C29_Witness ==
    \E t \in TaskIds :
        /\ max_retries = 1
        /\ attempts[t] = << "ok" >>
        /\ Len(served[t]) = 1
        /\ yielded[t] = << "Looks" >>
        /\ stream_end[t] = "failed"
        /\ pc[t] = "done"

(***************************************************************************)
(* Cancellation before the worker starts                                   *)
(***************************************************************************)

\* the task was cancelled while the pool had not yet called its run()
CancelledWhileQueued(t) == pc[t] = "queued" /\ is_cancelled[t]

\* C30: a task cancelled before its run() begins does nothing: no step of
\* such a task adds a notification or issues an HTTP request.
C30_CancelledBeforeRunDoesNothing ==
    [][\A t \in TaskIds :
          CancelledWhileQueued(t) =>
              /\ emitted'[t] = emitted[t]
              /\ attempts'[t] = attempts[t]]_vars

(***************************************************************************)
(* The two buffering paths (SpecStreamer)                                  *)
(***************************************************************************)

\* streaming has stopped and the event loop has nothing left to dispatch
StreamerQuiet == streaming = "stopped" /\ cpp_posted = << >>

\* C31: the native path and the fallback path are interchangeable: for the
\* same tokens fed to an uncancelled task, once streaming has stopped and
\* every posted event is dispatched, each path has delivered every chunk it
\* emitted to the content handler, and the delivered chunks concatenate to
\* the same text (the tokens fed) on both paths.
C31_PathsInterchangeable ==
    (StreamerQuiet /\ ~stream_cancelled) =>
        /\ Join(py_delivered) = Join(fed)
        /\ cpp_delivered = cpp_emitted
        /\ Join(cpp_delivered) = Join(py_delivered)

(***************************************************************************)
(* The fallback buffer's bound (SpecTask)                                  *)
(***************************************************************************)

\* the content_ready chunks a step of task t emits
NewChunks(t) ==
    SelectSeq(SubSeq(emitted'[t], Len(emitted[t]) + 1, Len(emitted'[t])),
              LAMBDA n : n.type = "content")

\* task t is inside _add_token, past the cancellation check, with the
\* token it was passed last in offered
AddsToken(t) == pc[t] \in {"append", "sep_append"}

\* the last n elements of a sequence
LastTokens(tokens, n) == SubSeq(tokens, Len(tokens) - n + 1, Len(tokens))

\* C32: with buffer_size >= 1 fewer than buffer_size tokens are pending
\* after every step; a chunk emitted by an _add_token call is the join of
\* the last buffer_size tokens added, a chunk emitted by a flush of
\* _stop_streaming is the join of the 1 to buffer_size - 1 tokens that were
\* pending, every emission empties the buffer, a step emits at most one
\* chunk and no chunk is empty.
C32_FallbackBufferBound ==
    [][\A t \in TaskIds :
          /\ buffer_size >= 1
          /\ Len(buffer'[t]) < buffer_size
          /\ Len(NewChunks(t)) <= 1
          /\ NewChunks(t) # << >> =>
                /\ NewChunks(t)[1].text # ""
                /\ buffer'[t] = << >>
                /\ IF AddsToken(t)
                   THEN /\ Len(buffer[t]) = buffer_size - 1
                        /\ Len(offered[t]) >= buffer_size
                        /\ NewChunks(t)[1].text =
                               Join(LastTokens(offered[t], buffer_size))
                   ELSE /\ Len(buffer[t]) \in 1..(buffer_size - 1)
                        /\ NewChunks(t)[1].text = Join(buffer[t])]_vars

\* the chunks of a log, in order
Chunks(log) ==
    [i \in 1..Len(SelectSeq(log, LAMBDA n : n.type = "content")) |->
        SelectSeq(log, LAMBDA n : n.type = "content")[i].text]

\* three tokens through a buffer of two: one full chunk from the size
\* trigger, then the final flush with the one token left
C32_Witness ==
    \E t \in TaskIds :
        /\ buffer_size = 2
        /\ kind[t] = "review"
        /\ offered[t] = << "Looks", "Looks", " fine." >>
        /\ Chunks(emitted[t]) = << "LooksLooks", " fine." >>
        /\ buffer[t] = << >>
        /\ pc[t] = "done"

(***************************************************************************)
(* Termination of run() (SpecTaskFair)                                     *)
(***************************************************************************)

\* the iterations range(max_retries + 1) allows
MaxAttempts == IF max_retries + 1 > 0 THEN max_retries + 1 ELSE 0

\* how a run() that has returned ended: it emitted finished, it emitted
\* error, or it left the token loop on the cancellation flag having emitted
\* neither
Outcomes(t) ==
    {o \in {"finished", "error", "cancelled"} :
        \/ o = "finished" /\ Count(emitted[t], "finished") >= 1
        \/ o = "error" /\ Count(emitted[t], "error") >= 1
        \/ o = "cancelled" /\ is_cancelled[t]
                           /\ Count(emitted[t], "finished") = 0
                           /\ Count(emitted[t], "error") = 0}

\* C33: every task run terminates: a started task's run() eventually
\* returns, having reached exactly one of finished, error or cancelled; the
\* retry loop makes at most max_retries + 1 POSTs, and the attempt counter
\* never goes back.
C33_EveryRunTerminates ==
    /\ \A t \in TaskIds : (pc[t] = "queued") ~> (pc[t] = "done")
    /\ [](\A t \in TaskIds :
            /\ Len(attempts[t]) <= MaxAttempts
            /\ pc[t] = "done" => Cardinality(Outcomes(t)) = 1)
    /\ [][\A t \in TaskIds :
            /\ attempt'[t] >= attempt[t]
            /\ Len(attempts'[t]) >= Len(attempts[t])
            /\ pc[t] = "done" => pc'[t] = "done"]_vars

\* a run that used its two POSTs, read the whole body and returned
C33_Witness ==
    \E t \in TaskIds :
        /\ max_retries = 1
        /\ Len(attempts[t]) = 2
        /\ Len(served[t]) = MaxLines
        /\ pc[t] = "done"
        /\ Outcomes(t) = {"finished"}

(***************************************************************************)
(* Success and the request behind it (SpecTask)                            *)
(***************************************************************************)

\* C34: success implies a successful attempt: for every integer value of
\* max_retries, a stream call that ended without raising has issued a POST
\* that returned a success status, and a task that emitted finished has
\* such a POST behind it.
C34_SuccessImpliesSuccessfulAttempt ==
    \A t \in TaskIds :
        (stream_end[t] = "exhausted" \/ Count(emitted[t], "finished") >= 1)
            => \E i \in 1..Len(attempts[t]) : attempts[t][i] = "ok"

(***************************************************************************)
(* The manager's state and the workers (Spec)                              *)
(***************************************************************************)

\* run() of task t has returned
Ended(t) == pc[t] = "done"

\* C35: task execution never changes TaskManager state: only a start call
\* (start_review / start_followup, with the _cancel_current_task inside it)
\* changes current_task or task_history; every other step, a worker's or a
\* direct cancel() of the task, leaves both as they are, so a task that was
\* current when it finished, failed or was cancelled directly is still
\* current_task, and get_stats().has_current_task still true, until the
\* next start.
C35_WorkersLeaveManagerAlone ==
    [][~StartCalled =>
          /\ current_task' = current_task
          /\ task_history' = task_history
          /\ GetStats'.has_current_task = GetStats.has_current_task
          /\ \A t \in TaskIds :
                (current_task = t /\ Ended(t)') =>
                    /\ current_task' = t
                    /\ GetStats'.has_current_task]_vars

\* a task cancelled directly has ended and is still the current task
C35_Witness ==
    \E t \in TaskIds :
        /\ Ended(t)
        /\ is_cancelled[t]
        /\ current_task = t
        /\ GetStats.has_current_task
        /\ tasks_left = MaxTasks - 1

(***************************************************************************)
(* Empty tokens (SpecTask)                                                 *)
(***************************************************************************)

\* an empty line, or a record whose message or message.content is absent
\* or the empty string
Tokenless(line) ==
    \/ line.prefix = "" /\ line.body = "empty"
    \/ /\ line.body = "record"
       /\ \/ line.message \in {"absent", "empty"}
          \/ line.content = ""

\* C36: the decoder never yields an empty token: no token of a stream is
\* the empty string; reading an empty line, or a record whose message or
\* message.content is absent or empty, yields nothing and hands nothing to
\* run(), and it ends the stream exactly when it is a record with done =
\* true; otherwise the stream goes on to its next line.
C36_NoEmptyToken ==
    [][\A t \in TaskIds :
          /\ \A i \in 1..Len(yielded'[t]) : yielded'[t][i] # ""
          /\ \A line \in Lines :
                (Reads(t, line) /\ Tokenless(line)) =>
                    /\ yielded'[t] = yielded[t]
                    /\ cur'[t] = cur[t]
                    /\ emitted'[t] = emitted[t]
                    /\ IF line.body = "record" /\ line.done
                       THEN /\ stream_end'[t] = "exhausted"
                            /\ pc'[t] = "stop1"
                       ELSE /\ stream_end'[t] = stream_end[t]
                            /\ pc'[t] = "read"]_vars

\* a record without a message and an empty line were read and skipped,
\* then a token came
C36_Witness ==
    \E t \in TaskIds :
        /\ Len(served[t]) = 3
        /\ served[t][1].body = "record" /\ served[t][1].message = "absent"
        /\ served[t][2].body = "empty"
        /\ yielded[t] = << "Looks" >>
        /\ stream_end[t] = "open"

====
